---- MODULE Spec2Model ----
(***************************************************************************)
(* KeyDeriver (BRC-42 style key derivation): counterparty normalisation,   *)
(* invoice-number construction, public / private / symmetric derivation    *)
(* and linkage revelation, over a small curve of the secp256k1 family.     *)
(***************************************************************************)
EXTENDS Integers, Sequences, FiniteSets, TLC

(***************************************************************************)
(* Curve primitive library (imported from '../primitives/index').          *)
(* The curve is y^2 = x^3 + 7 over F_FieldP; its group has prime order     *)
(* CurveN, so every finite point generates it.  A point is <<x, y>>, the   *)
(* point at infinity (x = y = null) is <<>>.                               *)
(***************************************************************************)
FieldP == 13

CurveN == 7

CurveB == 7

BasePoint == <<7, 5>>

Infinity == <<>>

\* Curve.validate: infinity is valid, otherwise y^2 = x^3 + b (mod p).
Validate(pt) ==
  \/ pt = Infinity
  \/ /\ Len(pt) = 2
     /\ (pt[2] * pt[2]) % FieldP = (pt[1] * pt[1] * pt[1] + CurveB) % FieldP

ModInv(x) == CHOOSE y \in 1..(FieldP - 1) : (x * y) % FieldP = 1

\* Point.add on valid points (affine chord-and-tangent rule).
PointAdd(p1, p2) ==
  IF p1 = Infinity THEN p2
  ELSE IF p2 = Infinity THEN p1
  ELSE IF p1[1] = p2[1] /\ (p1[2] + p2[2]) % FieldP = 0 THEN Infinity
  ELSE LET lam == IF p1 = p2
                  THEN (3 * p1[1] * p1[1] * ModInv((2 * p1[2]) % FieldP)) % FieldP
                  ELSE ((p2[2] - p1[2] + FieldP)
                        * ModInv((p2[1] - p1[1] + FieldP) % FieldP)) % FieldP
           x3 == (lam * lam + 2 * FieldP - p1[1] - p2[1]) % FieldP
           y3 == (lam * (p1[1] - x3 + FieldP) + FieldP - p1[2]) % FieldP
       IN <<x3, y3>>

RECURSIVE RepeatedAdd(_, _)
RepeatedAdd(k, pt) ==
  IF k = 0 THEN Infinity ELSE PointAdd(pt, RepeatedAdd(k - 1, pt))

\* The private scalars (0 only arises as a degenerate child key).
Scalars == 0..(CurveN - 1)

\* The points of the group: the multiples of the base point.
GroupPoints == {RepeatedAdd(k, BasePoint) : k \in Scalars}

\* The finite points of the curve.
CurvePoints == GroupPoints \ {Infinity}

MulTable == [k \in Scalars |-> [pt \in GroupPoints |-> RepeatedAdd(k, pt)]]

\* Point.mul: k times the point (tabulated repeated addition).
PointMul(k, pt) == MulTable[k][pt]

\* PrivateKey.toPublicKey: scalar times the base point.
ToPublicKey(k) == PointMul(k, BasePoint)

\* Point.encode(true) / PublicKey.toString: parity prefix 02/03 and x.
Encode(pt) == <<2 + (pt[2] % 2), pt[1]>>

\* PublicKey.fromString.  Compressed form: the point with that x and parity,
\* a parse error when x is not on the curve.  Uncompressed form <<4, x, y>>:
\* the point as written, left to the caller's validate().  Anything else is a
\* parse error, reported as <<"error">>.
ParseError == <<"error">>

FromString(hex) ==
  IF Len(hex) = 2 /\ hex[1] \in {2, 3}
  THEN LET ys == {y \in 0..(FieldP - 1) :
                    Validate(<<hex[2], y>>) /\ y % 2 = hex[1] - 2}
       IN IF ys = {} THEN ParseError ELSE <<hex[2], CHOOSE y \in ys : TRUE>>
  ELSE IF Len(hex) = 3 /\ hex[1] = 4 THEN <<hex[2], hex[3]>>
  ELSE ParseError

\* PrivateKey.deriveSharedSecret / PublicKey.deriveSharedSecret: the
\* Diffie-Hellman point scalar * point.
DeriveSharedSecret(k, pt) == PointMul(k, pt)

IndexTable ==
  [pt \in GroupPoints |-> CHOOSE k \in Scalars : RepeatedAdd(k, BasePoint) = pt]

\* The index of a point in the group, used only to key the hash model.
PointIndex(pt) == IndexTable[pt]

\* Characters of the model's strings; a string is a sequence of them.
Alphabet == <<"a", "b", "c", "d", "e", "f", "g", "h", "i", "j", "k", "l", "m",
              "n", "o", "p", "q", "r", "s", "t", "u", "v", "w", "x", "y", "z",
              "0", "1", "2", "3", "9", " ", "-", "_", "!", "A", "P", "S", "T", "\t">>

CharCode(c) == CHOOSE i \in 1..Len(Alphabet) : Alphabet[i] = c

RECURSIVE MsgCode(_)
\* Utils.toArray(str, 'utf8') folded to a number: the message input of the hash.
MsgCode(s) == IF s = <<>> THEN 1 ELSE (31 * MsgCode(Tail(s)) + CharCode(Head(s))) % 1009

\* Hash.sha256hmac(key = encoded shared point, message), reduced mod n as
\* deriveChild does.  Modelled as an ideal hash: for one message, distinct
\* keys give distinct values mod n; the value depends on key and message.
Sha256Hmac(pt, msg) ==
  LET k == (PointIndex(pt) + MsgCode(msg)) % CurveN
  IN (k * k * k * k * k + 3) % CurveN

\* PrivateKey.deriveChild(publicKey, invoiceNumber): root + hmac (mod n).
DeriveChildPrivate(k, pt, invoiceNumber) ==
  (k + Sha256Hmac(DeriveSharedSecret(k, pt), invoiceNumber)) % CurveN

\* PublicKey.deriveChild(privateKey, invoiceNumber): point + hmac * G.
DeriveChildPublic(pt, k, invoiceNumber) ==
  PointAdd(pt, ToPublicKey(Sha256Hmac(DeriveSharedSecret(k, pt), invoiceNumber)))

(***************************************************************************)
(* String primitives of the host language, on sequences of characters.     *)
(***************************************************************************)
UpperChars == <<"A", "P", "S", "T">>

LowerChars == <<"a", "p", "s", "t">>

Whitespace == {" ", "\t"}

\* One character of String.prototype.toLowerCase.
LowerChar(c) ==
  IF \E i \in 1..Len(UpperChars) : UpperChars[i] = c
  THEN LowerChars[CHOOSE i \in 1..Len(UpperChars) : UpperChars[i] = c]
  ELSE c

\* String.prototype.toLowerCase.
ToLowerCase(s) == [i \in 1..Len(s) |-> LowerChar(s[i])]

RECURSIVE SkipLeft(_, _)
SkipLeft(s, i) ==
  IF i <= Len(s) /\ s[i] \in Whitespace THEN SkipLeft(s, i + 1) ELSE i

RECURSIVE SkipRight(_, _)
SkipRight(s, i) ==
  IF i >= 1 /\ s[i] \in Whitespace THEN SkipRight(s, i - 1) ELSE i

\* String.prototype.trim: drop leading and trailing whitespace.
Trim(s) == SubSeq(s, SkipLeft(s, 1), SkipRight(s, Len(s)))

\* String.prototype.startsWith / endsWith / includes.
StartsWith(s, pre) == Len(s) >= Len(pre) /\ SubSeq(s, 1, Len(pre)) = pre

EndsWith(s, suf) ==
  Len(s) >= Len(suf) /\ SubSeq(s, Len(s) - Len(suf) + 1, Len(s)) = suf

Includes(s, sub) ==
  \E i \in 1..(Len(s) - Len(sub) + 1) : SubSeq(s, i, i + Len(sub) - 1) = sub

\* The character class of /^[a-z0-9 ]+$/.
NameChars == {"a", "b", "c", "d", "e", "f", "g", "h", "i", "j", "k", "l", "m",
              "n", "o", "p", "q", "r", "s", "t", "u", "v", "w", "x", "y", "z",
              "0", "1", "2", "3", "4", "5", "6", "7", "8", "9", " "}

MatchesNameRegex(s) == Len(s) >= 1 /\ \A i \in 1..Len(s) : s[i] \in NameChars

\* Template-literal rendering of an integer security level 0..9.
DigitChars == <<"0", "1", "2", "3", "4", "5", "6", "7", "8", "9">>

NumberToString(n) == <<DigitChars[n + 1]>>

LinkagePrefix ==
  <<"s", "p", "e", "c", "i", "f", "i", "c", " ", "l", "i", "n", "k", "a", "g",
    "e", " ", "r", "e", "v", "e", "l", "a", "t", "i", "o", "n", " ">>

ProtocolSuffix == <<" ", "p", "r", "o", "t", "o", "c", "o", "l">>

\* Results of a call: a returned value or a thrown error of one kind.
Ok(v) == [ok |-> TRUE, val |-> v]

Fail(kind) == [ok |-> FALSE, err |-> kind]

(***************************************************************************)
(* KeyDeriver.computeInvoiceNumber.  A security level is a number          *)
(* [floor, int]: an integer n is [floor |-> n, int |-> TRUE], a            *)
(* non-integer between n and n + 1 is [floor |-> n, int |-> FALSE].        *)
(***************************************************************************)
MaxKeyIDLength == 800

MinKeyIDLength == 1

MaxProtocolNameLength == 400

MaxLinkageNameLength == 430

MinProtocolNameLength == 5

MaxSecurityLevel == 2

Level(n) == [floor |-> n, int |-> TRUE]

Fraction(n) == [floor |-> n, int |-> FALSE]

\* !Number.isInteger(securityLevel) || securityLevel < 0 || securityLevel > 2
SecurityLevelInvalid(securityLevel) ==
  \/ ~securityLevel.int
  \/ securityLevel.floor < 0
  \/ securityLevel.floor > MaxSecurityLevel
  \/ (securityLevel.floor = MaxSecurityLevel /\ ~securityLevel.int)

\* Faulty variant: the name is lower-cased but not trimmed.
NormalizeProtocolName_noTrim(name) == ToLowerCase(name)

\* protocolID[1].toLowerCase().trim()
NormalizeProtocolName(name) == Trim(ToLowerCase(name))

\* Faulty variant: the upper limit on the key identifier is not enforced.
KeyIDInvalid_dropsUpperLimit(keyID) == Len(keyID) < MinKeyIDLength

\* keyID.length > 800 or keyID.length < 1
KeyIDInvalid(keyID) ==
  Len(keyID) > MaxKeyIDLength \/ Len(keyID) < MinKeyIDLength

\* Faulty variant: the 430 limit is granted to every name, prefix or not.
NameLengthInvalid_linkageLimitForAll(protocolName) ==
  \/ Len(protocolName) > MaxLinkageNameLength
  \/ Len(protocolName) < MinProtocolNameLength

\* The length rule: over 400 only with the linkage prefix and then at most
\* 430; never under 5.
NameLengthInvalid(protocolName) ==
  \/ /\ Len(protocolName) > MaxProtocolNameLength
     /\ IF StartsWith(protocolName, LinkagePrefix)
        THEN Len(protocolName) > MaxLinkageNameLength
        ELSE TRUE
  \/ Len(protocolName) < MinProtocolNameLength

\* Faulty variant: the character class also lets "-" into a name.
NameCharsInvalid_allowsDash(protocolName) ==
  \/ Includes(protocolName, <<" ", " ">>)
  \/ ~(/\ Len(protocolName) >= 1
       /\ \A i \in 1..Len(protocolName) : protocolName[i] \in NameChars \cup {"-"})
  \/ EndsWith(protocolName, ProtocolSuffix)

\* The character rules: no "  ", only [a-z0-9 ], no trailing " protocol".
NameCharsInvalid(protocolName) ==
  \/ Includes(protocolName, <<" ", " ">>)
  \/ ~MatchesNameRegex(protocolName)
  \/ EndsWith(protocolName, ProtocolSuffix)

\* `${securityLevel}-${protocolName}-${keyID}`
FormatInvoiceNumber(securityLevel, protocolName, keyID) ==
  NumberToString(securityLevel.floor) \o <<"-">> \o protocolName \o <<"-">> \o keyID

\* Faulty variant: the name is checked before the key identifier.
computeInvoiceNumber_nameChecksFirst(protocolID, keyID) ==
  LET securityLevel == protocolID[1]
      protocolName == NormalizeProtocolName(protocolID[2])
  IN IF SecurityLevelInvalid(securityLevel) THEN Fail("InvalidProtocolID")
     ELSE IF NameLengthInvalid(protocolName) THEN Fail("InvalidProtocolID")
     ELSE IF NameCharsInvalid(protocolName) THEN Fail("InvalidProtocolID")
     ELSE IF KeyIDInvalid(keyID) THEN Fail("InvalidKeyID")
     ELSE Ok(FormatInvoiceNumber(securityLevel, protocolName, keyID))

\* The checks in the order of the code: level, key identifier, name length,
\* name characters.
computeInvoiceNumber(protocolID, keyID) ==
  LET securityLevel == protocolID[1]
      protocolName == NormalizeProtocolName(protocolID[2])
  IN IF SecurityLevelInvalid(securityLevel) THEN Fail("InvalidProtocolID")
     ELSE IF KeyIDInvalid(keyID) THEN Fail("InvalidKeyID")
     ELSE IF NameLengthInvalid(protocolName) THEN Fail("InvalidProtocolID")
     ELSE IF NameCharsInvalid(protocolName) THEN Fail("InvalidProtocolID")
     ELSE Ok(FormatInvoiceNumber(securityLevel, protocolName, keyID))

(***************************************************************************)
(* Counterparties: the strings 'self' and 'anyone', undefined / null, any  *)
(* other string (taken as a public key in hex), or a PublicKey object.     *)
(***************************************************************************)
Self == [tag |-> "self"]

Anyone == [tag |-> "anyone"]

Undefined == [tag |-> "undefined"]

KeyString(hex) == [tag |-> "string", hex |-> hex]

KeyObject(pt) == [tag |-> "PublicKey", point |-> pt]

\* Faulty variant: 'anyone' is normalised like 'self'.
normalizeCounterparty_anyoneIsRoot(rootKey, counterparty) ==
  IF counterparty.tag = "undefined" THEN Fail("InvalidCounterparty")
  ELSE IF counterparty.tag \in {"self", "anyone"} THEN Ok(ToPublicKey(rootKey))
  ELSE IF counterparty.tag = "string"
  THEN LET parsed == FromString(counterparty.hex)
       IN IF parsed = ParseError \/ ~Validate(parsed)
          THEN Fail("InvalidCounterparty")
          ELSE Ok(parsed)
  ELSE IF ~Validate(counterparty.point) THEN Fail("InvalidCounterparty")
  ELSE Ok(counterparty.point)

\* KeyDeriver.normalizeCounterparty
normalizeCounterparty(rootKey, counterparty) ==
  IF counterparty.tag = "undefined" THEN Fail("InvalidCounterparty")
  ELSE IF counterparty.tag = "self" THEN Ok(ToPublicKey(rootKey))
  ELSE IF counterparty.tag = "anyone" THEN Ok(ToPublicKey(1))
  ELSE IF counterparty.tag = "string"
  THEN LET parsed == FromString(counterparty.hex)
       IN IF parsed = ParseError \/ ~Validate(parsed)
          THEN Fail("InvalidCounterparty")
          ELSE Ok(parsed)
  ELSE IF ~Validate(counterparty.point) THEN Fail("InvalidCounterparty")
  ELSE Ok(counterparty.point)

\* Faulty variant: the forSelf branch is taken whatever forSelf is.
derivePublicKey_alwaysForSelf(rootKey, protocolID, keyID, counterparty, forSelf) ==
  LET cp == normalizeCounterparty(rootKey, counterparty)
      invoice == computeInvoiceNumber(protocolID, keyID)
  IN IF ~cp.ok THEN Fail("InvalidCounterparty")
     ELSE IF ~invoice.ok THEN invoice
     ELSE Ok(ToPublicKey(DeriveChildPrivate(rootKey, cp.val, invoice.val)))

\* KeyDeriver.derivePublicKey
derivePublicKey(rootKey, protocolID, keyID, counterparty, forSelf) ==
  LET cp == normalizeCounterparty(rootKey, counterparty)
      invoice == computeInvoiceNumber(protocolID, keyID)
  IN IF ~cp.ok THEN Fail("InvalidCounterparty")
     ELSE IF ~invoice.ok THEN invoice
     ELSE LET derivedKey ==
                IF forSelf
                THEN ToPublicKey(DeriveChildPrivate(rootKey, cp.val, invoice.val))
                ELSE DeriveChildPublic(cp.val, rootKey, invoice.val)
          IN IF ~Validate(derivedKey) THEN Fail("DerivationError")
             ELSE Ok(derivedKey)

\* Faulty variant: the child is derived against the instance's own key.
derivePrivateKey_ignoresCounterparty(rootKey, protocolID, keyID, counterparty) ==
  LET cp == normalizeCounterparty(rootKey, counterparty)
      invoice == computeInvoiceNumber(protocolID, keyID)
  IN IF ~cp.ok THEN cp
     ELSE IF ~invoice.ok THEN invoice
     ELSE Ok(DeriveChildPrivate(rootKey, ToPublicKey(rootKey), invoice.val))

\* KeyDeriver.derivePrivateKey
derivePrivateKey(rootKey, protocolID, keyID, counterparty) ==
  LET cp == normalizeCounterparty(rootKey, counterparty)
      invoice == computeInvoiceNumber(protocolID, keyID)
  IN IF ~cp.ok THEN cp
     ELSE IF ~invoice.ok THEN invoice
     ELSE Ok(DeriveChildPrivate(rootKey, cp.val, invoice.val))

\* Faulty variant: the public key is derived with forSelf = true.
deriveSymmetricKey_forSelfPublic(rootKey, protocolID, keyID, counterparty) ==
  LET first == IF counterparty.tag = "anyone" THEN KeyObject(ToPublicKey(1))
               ELSE counterparty
      cp == normalizeCounterparty(rootKey, first)
  IN IF ~cp.ok THEN cp
     ELSE LET derivedPublicKey ==
                derivePublicKey(rootKey, protocolID, keyID, KeyObject(cp.val), TRUE)
              derivedPrivateKey ==
                derivePrivateKey(rootKey, protocolID, keyID, KeyObject(cp.val))
          IN IF ~derivedPublicKey.ok THEN derivedPublicKey
             ELSE IF ~derivedPrivateKey.ok THEN derivedPrivateKey
             ELSE LET sharedSecret ==
                        DeriveSharedSecret(derivedPrivateKey.val, derivedPublicKey.val)
                  IN IF sharedSecret = Infinity THEN Fail("DerivationError")
                     ELSE Ok(<<sharedSecret[1]>>)

\* KeyDeriver.deriveSymmetricKey: the key material is the x-coordinate of
\* the shared point of the derived private and public keys.
deriveSymmetricKey(rootKey, protocolID, keyID, counterparty) ==
  LET first == IF counterparty.tag = "anyone" THEN KeyObject(ToPublicKey(1))
               ELSE counterparty
      cp == normalizeCounterparty(rootKey, first)
  IN IF ~cp.ok THEN cp
     ELSE LET derivedPublicKey ==
                derivePublicKey(rootKey, protocolID, keyID, KeyObject(cp.val), FALSE)
              derivedPrivateKey ==
                derivePrivateKey(rootKey, protocolID, keyID, KeyObject(cp.val))
          IN IF ~derivedPublicKey.ok THEN derivedPublicKey
             ELSE IF ~derivedPrivateKey.ok THEN derivedPrivateKey
             ELSE LET sharedSecret ==
                        DeriveSharedSecret(derivedPrivateKey.val, derivedPublicKey.val)
                  IN IF sharedSecret = Infinity THEN Fail("DerivationError")
                     ELSE Ok(<<sharedSecret[1]>>)

TestInvoiceNumber == <<"t", "e", "s", "t">>

\* Faulty variant: only the tag 'self' is refused, not a key equal to the own one.
revealCounterpartySecret_tagCheckOnly(rootKey, counterparty) ==
  IF counterparty.tag = "self" THEN Fail("PolicyViolation")
  ELSE LET cp == normalizeCounterparty(rootKey, counterparty)
       IN IF ~cp.ok THEN cp
          ELSE Ok(Encode(DeriveSharedSecret(rootKey, cp.val)))

\* KeyDeriver.revealCounterpartySecret
revealCounterpartySecret(rootKey, counterparty) ==
  IF counterparty.tag = "self" THEN Fail("PolicyViolation")
  ELSE LET cp == normalizeCounterparty(rootKey, counterparty)
       IN IF ~cp.ok THEN cp
          ELSE LET self == ToPublicKey(rootKey)
                   keyDerivedBySelf ==
                     DeriveChildPrivate(rootKey, self, TestInvoiceNumber)
                   keyDerivedByCounterparty ==
                     DeriveChildPrivate(rootKey, cp.val, TestInvoiceNumber)
               IN IF keyDerivedBySelf = keyDerivedByCounterparty
                  THEN Fail("PolicyViolation")
                  ELSE Ok(Encode(DeriveSharedSecret(rootKey, cp.val)))

\* KeyDeriver.revealSpecificSecret
revealSpecificSecret(rootKey, counterparty, protocolID, keyID) ==
  LET cp == normalizeCounterparty(rootKey, counterparty)
      invoice == computeInvoiceNumber(protocolID, keyID)
  IN IF ~cp.ok THEN cp
     ELSE IF ~invoice.ok THEN invoice
     ELSE Ok(Sha256Hmac(DeriveSharedSecret(rootKey, cp.val), invoice.val))

(***************************************************************************)
(* The state: two KeyDeriver instances, and the call in flight with its    *)
(* result.  A deriver keeps nothing of a call: the caller takes the result *)
(* (Return) and the next call starts from the instance fields alone.       *)
(***************************************************************************)
VARIABLES rootKey, identityKey, call, ret

\* The state of a StorageUploader call: the method called with its
\* parameters (task), the await it is suspended at (pc), the requests it
\* has issued with what came back for each (requests), the local
\* invoiceResult of publishFile, the two promises of upload, and the
\* promise the method returned to its caller.
VARIABLES task, pc, requests, invoiceResult, uploadPromise, hashPromise, promise

uploaderVars ==
  <<task, pc, requests, invoiceResult, uploadPromise, hashPromise, promise>>

vars == <<rootKey, identityKey, call, ret, uploaderVars>>

\* The states of a promise.
Unstarted == [state |-> "none"]

Pending == [state |-> "pending"]

Fulfilled(value) == [state |-> "fulfilled", value |-> value]

Rejected(error) == [state |-> "rejected", error |-> error]

NoTask == [op |-> "none"]

\* No StorageUploader method has been called.
UploaderIdle ==
  /\ task = NoTask
  /\ pc = "idle"
  /\ requests = <<>>
  /\ invoiceResult = Unstarted
  /\ uploadPromise = Unstarted
  /\ hashPromise = Unstarted
  /\ promise = Unstarted

Instances == {"a", "b"}

NoCall == [op |-> "none"]

NoResult == [ok |-> FALSE, err |-> "none"]

\* Constructor arguments: the string 'anyone' or a PrivateKey.
AnyoneRoot == [tag |-> "anyone"]

PrivateKeyRoot(k) == [tag |-> "PrivateKey", key |-> k]

RootKeyArgs == {AnyoneRoot} \cup {PrivateKeyRoot(k) : k \in 1..(CurveN - 1)}

\* KeyDeriver.constructor
constructor(arg) ==
  LET root == IF arg.tag = "anyone" THEN 1 ELSE arg.key
  IN [rootKey |-> root, identityKey |-> Encode(ToPublicKey(root))]

Init ==
  /\ \E args \in [Instances -> RootKeyArgs] :
       /\ rootKey = [i \in Instances |-> constructor(args[i]).rootKey]
       /\ identityKey = [i \in Instances |-> constructor(args[i]).identityKey]
  /\ call = NoCall
  /\ ret = NoResult
  /\ UploaderIdle

\* Both instances built with 'anyone': the start of the runs that only
\* exercise computeInvoiceNumber, which reads no instance field.
InitAnyone ==
  /\ rootKey = [i \in Instances |-> constructor(AnyoneRoot).rootKey]
  /\ identityKey = [i \in Instances |-> constructor(AnyoneRoot).identityKey]
  /\ call = NoCall
  /\ ret = NoResult
  /\ UploaderIdle

DerivePublicKeyCall(i, protocolID, keyID, counterparty, forSelf) ==
  /\ call.op = "none"
  /\ call' = [op |-> "derivePublicKey", inst |-> i, protocolID |-> protocolID,
              keyID |-> keyID, counterparty |-> counterparty, forSelf |-> forSelf]
  /\ ret' = derivePublicKey(rootKey[i], protocolID, keyID, counterparty, forSelf)
  /\ UNCHANGED <<rootKey, identityKey, uploaderVars>>

\* Faulty variant: the derived child is stored as the new root key.
DerivePrivateKeyCall_keepsChildAsRoot(i, protocolID, keyID, counterparty) ==
  /\ call.op = "none"
  /\ call' = [op |-> "derivePrivateKey", inst |-> i, protocolID |-> protocolID,
              keyID |-> keyID, counterparty |-> counterparty]
  /\ ret' = derivePrivateKey(rootKey[i], protocolID, keyID, counterparty)
  /\ rootKey' = IF ret'.ok /\ ret'.val # 0
                THEN [rootKey EXCEPT ![i] = ret'.val]
                ELSE rootKey
  /\ UNCHANGED <<identityKey, uploaderVars>>

DerivePrivateKeyCall(i, protocolID, keyID, counterparty) ==
  /\ call.op = "none"
  /\ call' = [op |-> "derivePrivateKey", inst |-> i, protocolID |-> protocolID,
              keyID |-> keyID, counterparty |-> counterparty]
  /\ ret' = derivePrivateKey(rootKey[i], protocolID, keyID, counterparty)
  /\ UNCHANGED <<rootKey, identityKey, uploaderVars>>

DeriveSymmetricKeyCall(i, protocolID, keyID, counterparty) ==
  /\ call.op = "none"
  /\ call' = [op |-> "deriveSymmetricKey", inst |-> i, protocolID |-> protocolID,
              keyID |-> keyID, counterparty |-> counterparty]
  /\ ret' = deriveSymmetricKey(rootKey[i], protocolID, keyID, counterparty)
  /\ UNCHANGED <<rootKey, identityKey, uploaderVars>>

RevealCounterpartySecretCall(i, counterparty) ==
  /\ call.op = "none"
  /\ call' = [op |-> "revealCounterpartySecret", inst |-> i,
              counterparty |-> counterparty]
  /\ ret' = revealCounterpartySecret(rootKey[i], counterparty)
  /\ UNCHANGED <<rootKey, identityKey, uploaderVars>>

RevealSpecificSecretCall(i, counterparty, protocolID, keyID) ==
  /\ call.op = "none"
  /\ call' = [op |-> "revealSpecificSecret", inst |-> i, protocolID |-> protocolID,
              keyID |-> keyID, counterparty |-> counterparty]
  /\ ret' = revealSpecificSecret(rootKey[i], counterparty, protocolID, keyID)
  /\ UNCHANGED <<rootKey, identityKey, uploaderVars>>

NormalizeCounterpartyCall(i, counterparty) ==
  /\ call.op = "none"
  /\ call' = [op |-> "normalizeCounterparty", inst |-> i,
              counterparty |-> counterparty]
  /\ ret' = normalizeCounterparty(rootKey[i], counterparty)
  /\ UNCHANGED <<rootKey, identityKey, uploaderVars>>

ComputeInvoiceNumberCall(i, protocolID, keyID) ==
  /\ call.op = "none"
  /\ call' = [op |-> "computeInvoiceNumber", inst |-> i, protocolID |-> protocolID,
              keyID |-> keyID]
  /\ ret' = computeInvoiceNumber(protocolID, keyID)
  /\ UNCHANGED <<rootKey, identityKey, uploaderVars>>

\* The caller takes the result of the call.
Return ==
  /\ call.op # "none"
  /\ call' = NoCall
  /\ ret' = NoResult
  /\ UNCHANGED <<rootKey, identityKey, uploaderVars>>

(***************************************************************************)
(* Inputs of the derivation runs.                                          *)
(***************************************************************************)
OffCurvePoint == <<1, 1>>

Counterparties ==
  {Self, Anyone, Undefined}
    \cup {KeyString(Encode(pt)) : pt \in CurvePoints}
    \cup {KeyObject(pt) : pt \in CurvePoints}
    \cup {KeyObject(OffCurvePoint),
          KeyString(<<2, OffCurvePoint[1]>>),
          KeyString(<<4, OffCurvePoint[1], OffCurvePoint[2]>>),
          KeyString(<<4, BasePoint[1], BasePoint[2]>>),
          KeyString(<<>>)}

DeriveProtocolIDs ==
  {<<Level(2), <<"t", "e", "s", "t", "s">>>>,
   <<Level(1), <<" ", "A", "p", "p", " ", "k", "e", "y", "\t">>>>,
   <<Level(3), <<"t", "e", "s", "t", "s">>>>,
   <<Level(1), <<"a", "b", "c">>>>}

DeriveKeyIDs == {<<"1">>, <<"k", "-", "1">>, <<>>}

\* A call is made only when none is in flight (the guard is tested before
\* the inputs are drawn); its result is then taken.
Idle == call.op = "none"

DerivePublicKeyStep ==
  /\ Idle
  /\ \E i \in Instances, protocolID \in DeriveProtocolIDs, keyID \in DeriveKeyIDs,
        counterparty \in Counterparties, forSelf \in BOOLEAN :
       DerivePublicKeyCall(i, protocolID, keyID, counterparty, forSelf)

DerivePrivateKeyStep ==
  /\ Idle
  /\ \E i \in Instances, protocolID \in DeriveProtocolIDs, keyID \in DeriveKeyIDs,
        counterparty \in Counterparties :
       DerivePrivateKeyCall(i, protocolID, keyID, counterparty)

DeriveSymmetricKeyStep ==
  /\ Idle
  /\ \E i \in Instances, protocolID \in DeriveProtocolIDs, keyID \in DeriveKeyIDs,
        counterparty \in Counterparties :
       DeriveSymmetricKeyCall(i, protocolID, keyID, counterparty)

RevealCounterpartySecretStep ==
  /\ Idle
  /\ \E i \in Instances, counterparty \in Counterparties :
       RevealCounterpartySecretCall(i, counterparty)

RevealSpecificSecretStep ==
  /\ Idle
  /\ \E i \in Instances, protocolID \in DeriveProtocolIDs, keyID \in DeriveKeyIDs,
        counterparty \in Counterparties :
       RevealSpecificSecretCall(i, counterparty, protocolID, keyID)

NormalizeCounterpartyStep ==
  /\ Idle
  /\ \E i \in Instances, counterparty \in Counterparties :
       NormalizeCounterpartyCall(i, counterparty)

ComputeInvoiceNumberStep ==
  /\ Idle
  /\ \E i \in Instances, protocolID \in DeriveProtocolIDs, keyID \in DeriveKeyIDs :
       ComputeInvoiceNumberCall(i, protocolID, keyID)

Next ==
  \/ DerivePublicKeyStep
  \/ DerivePrivateKeyStep
  \/ DeriveSymmetricKeyStep
  \/ RevealCounterpartySecretStep
  \/ RevealSpecificSecretStep
  \/ NormalizeCounterpartyStep
  \/ ComputeInvoiceNumberStep
  \/ Return

Spec == Init /\ [][Next]_vars

(***************************************************************************)
(* Properties of the derivation operations.                                *)
(***************************************************************************)
\* The counterparty is the identity key of instance j, as the hex string
\* the instance publishes or as the PublicKey object of the same point.
IsIdentityOf(counterparty, j) ==
  \/ counterparty.tag = "string" /\ counterparty.hex = identityKey[j]
  \/ counterparty.tag = "PublicKey" /\ counterparty.point = FromString(identityKey[j])

ValidIDs(protocolID, keyID) ==
  /\ protocolID[1].int /\ protocolID[1].floor \in 0..2
  /\ Len(keyID) \in 1..800
  /\ LET name == NormalizeProtocolName(protocolID[2])
     IN Len(name) \in 5..400 /\ ~NameCharsInvalid(name)

SameResult(r1, r2) ==
  /\ r1.ok = r2.ok
  /\ r1.ok => r1.val = r2.val
  /\ ~r1.ok => r1.err = r2.err

\* C1 (agreement law): when instance i has derived a private key for the
\* counterparty "identity key of j" under valid identifiers, its public
\* point is the key that j's derivePublicKey(forSelf = false) returns for
\* the counterparty "identity key of i" under the same identifiers.
AgreementLaw ==
  call.op = "derivePrivateKey" /\ ValidIDs(call.protocolID, call.keyID) =>
    \A j \in Instances :
      IsIdentityOf(call.counterparty, j) =>
        LET other == derivePublicKey(rootKey[j], call.protocolID, call.keyID,
                                     KeyString(identityKey[call.inst]), FALSE)
        IN ret.ok /\ other.ok /\ ToPublicKey(ret.val) = other.val

AgreementWitness ==
  /\ call.op = "derivePrivateKey"
  /\ call.inst = "a"
  /\ IsIdentityOf(call.counterparty, "b")
  /\ rootKey["a"] # rootKey["b"]
  /\ ret.ok
  /\ ret.val # 0

\* C2 (symmetry law): deriveSymmetricKey by instance i for the counterparty
\* "identity key of j" and deriveSymmetricKey by j for "identity key of i",
\* under the same valid identifiers, have the same outcome: the same key
\* material, or both fail to derive.
SymmetryLaw ==
  call.op = "deriveSymmetricKey" /\ ValidIDs(call.protocolID, call.keyID) =>
    \A j \in Instances :
      IsIdentityOf(call.counterparty, j) =>
        SameResult(ret, deriveSymmetricKey(rootKey[j], call.protocolID, call.keyID,
                                           KeyString(identityKey[call.inst])))

SymmetryWitness ==
  /\ call.op = "deriveSymmetricKey"
  /\ call.inst = "a"
  /\ IsIdentityOf(call.counterparty, "b")
  /\ rootKey["a"] # rootKey["b"]
  /\ ret.ok

\* C3 as claimed (round trip across instances): derivePublicKey with
\* forSelf = true by instance i for the counterparty "identity key of j"
\* equals the public point of derivePrivateKey by j for "identity key of i".
RoundTripAcrossInstances ==
  (call.op = "derivePublicKey" /\ call.forSelf
     /\ ValidIDs(call.protocolID, call.keyID)) =>
    \A j \in Instances :
      IsIdentityOf(call.counterparty, j) =>
        LET other == derivePrivateKey(rootKey[j], call.protocolID, call.keyID,
                                      KeyString(identityKey[call.inst]))
        IN ret.ok /\ other.ok /\ ret.val = ToPublicKey(other.val)

\* C3 as amended: derivePublicKey with forSelf = true by instance i for the
\* counterparty "identity key of j" equals the public point of
\* derivePrivateKey by the same instance i for the same counterparty.
RoundTripSameInstance ==
  (call.op = "derivePublicKey" /\ call.forSelf
     /\ ValidIDs(call.protocolID, call.keyID)) =>
    \A j \in Instances :
      IsIdentityOf(call.counterparty, j) =>
        LET own == derivePrivateKey(rootKey[call.inst], call.protocolID,
                                    call.keyID, call.counterparty)
        IN ret.ok /\ own.ok /\ ret.val = ToPublicKey(own.val)

RoundTripWitness ==
  /\ call.op = "derivePublicKey"
  /\ call.forSelf
  /\ call.inst = "a"
  /\ IsIdentityOf(call.counterparty, "b")
  /\ rootKey["a"] # rootKey["b"]
  /\ ret.ok
  /\ ret.val # Infinity

\* C4: revealCounterpartySecret throws PolicyViolation for the tag 'self'
\* and for every counterparty that normalises to the instance's own identity
\* key; for every other counterparty that normalises it returns the
\* compressed shared point root key * counterparty.
RevealNeverForSelf ==
  call.op = "revealCounterpartySecret" =>
    LET root == rootKey[call.inst]
        cp == normalizeCounterparty(root, call.counterparty)
        own == cp.ok /\ Encode(cp.val) = identityKey[call.inst]
    IN /\ call.counterparty.tag = "self" => SameResult(ret, Fail("PolicyViolation"))
       /\ own => SameResult(ret, Fail("PolicyViolation"))
       /\ (call.counterparty.tag # "self" /\ cp.ok /\ ~own) =>
            /\ ret.ok
            /\ ret.val = Encode(PointMul(root, cp.val))
            /\ ret.val # Encode(PointMul(root, ToPublicKey(root)))

RevealWitness ==
  /\ call.op = "revealCounterpartySecret"
  /\ \/ call.counterparty.tag = "string"
        /\ call.counterparty.hex = identityKey[call.inst]
     \/ call.counterparty.tag = "anyone" /\ rootKey[call.inst] = 1
  /\ ~ret.ok
  /\ ret.err = "PolicyViolation"

\* C9: normalizeCounterparty throws InvalidCounterparty or returns a point
\* that is on the curve: 'self' gives the identity key's point (as passing
\* the identity key does), 'anyone' gives the base point whatever the root
\* key, an on-curve key is returned as given, and an absent, unparseable or
\* off-curve counterparty is never returned.
NormalizeContract ==
  call.op = "normalizeCounterparty" =>
    LET c == call.counterparty
        i == call.inst
    IN /\ ret.ok \/ ret.err = "InvalidCounterparty"
       /\ ret.ok => Validate(ret.val)
       /\ c.tag = "self" =>
            /\ ret.ok
            /\ Encode(ret.val) = identityKey[i]
            /\ SameResult(ret, normalizeCounterparty(rootKey[i],
                                                     KeyString(identityKey[i])))
       /\ c.tag = "anyone" => ret.ok /\ ret.val = BasePoint
       /\ c.tag = "undefined" => ~ret.ok
       /\ c.tag = "PublicKey" =>
            IF c.point \in CurvePoints THEN ret.ok /\ ret.val = c.point ELSE ~ret.ok
       /\ c.tag = "string" =>
            IF \E pt \in CurvePoints :
                 c.hex = Encode(pt) \/ c.hex = <<4, pt[1], pt[2]>>
            THEN ret.ok /\ c.hex \in {Encode(ret.val), <<4, ret.val[1], ret.val[2]>>}
            ELSE ~ret.ok

NormalizeWitness ==
  /\ call.op = "normalizeCounterparty"
  /\ call.counterparty.tag = "anyone"
  /\ rootKey[call.inst] # 1
  /\ ret.ok

\* The result the call in flight has from the instance fields as they are.
Outcome(c) ==
  LET root == rootKey[c.inst]
  IN CASE c.op = "derivePublicKey" ->
            derivePublicKey(root, c.protocolID, c.keyID, c.counterparty, c.forSelf)
       [] c.op = "derivePrivateKey" ->
            derivePrivateKey(root, c.protocolID, c.keyID, c.counterparty)
       [] c.op = "deriveSymmetricKey" ->
            deriveSymmetricKey(root, c.protocolID, c.keyID, c.counterparty)
       [] c.op = "revealCounterpartySecret" ->
            revealCounterpartySecret(root, c.counterparty)
       [] c.op = "revealSpecificSecret" ->
            revealSpecificSecret(root, c.counterparty, c.protocolID, c.keyID)
       [] c.op = "normalizeCounterparty" ->
            normalizeCounterparty(root, c.counterparty)
       [] c.op = "computeInvoiceNumber" ->
            computeInvoiceNumber(c.protocolID, c.keyID)

IdentityIsPointOfRoot ==
  \A i \in Instances :
    /\ rootKey[i] \in 1..(CurveN - 1)
    /\ FromString(identityKey[i]) = RepeatedAdd(rootKey[i], BasePoint)

ResultFromFieldsAndArguments ==
  call.op # "none" => SameResult(ret, Outcome(call))

\* C10: every step, whatever call it makes and whether the call returns or
\* throws, leaves rootKey and identityKey as they were; identityKey is
\* always the public point of rootKey, and the result in flight is the one
\* the root key and the arguments determine.
InstanceFieldsImmutable ==
  /\ [](IdentityIsPointOfRoot /\ ResultFromFieldsAndArguments)
  /\ [][rootKey' = rootKey /\ identityKey' = identityKey]_vars

ImmutableWitness ==
  /\ call.op = "derivePrivateKey"
  /\ ret.ok
  /\ ret.val # rootKey[call.inst]
  /\ IdentityIsPointOfRoot

(***************************************************************************)
(* Inputs of the runs that exercise computeInvoiceNumber alone: lengths    *)
(* within Slack of each limit, with and without the linkage prefix, and    *)
(* names that break one character rule each.                               *)
(***************************************************************************)
Slack == 1

Around(limit) == {n \in (limit - Slack)..(limit + Slack) : n >= 0}

Filler(n, c) == [i \in 1..n |-> c]

PlainName(n) == Filler(n, "a")

LinkageName(n) == LinkagePrefix \o Filler(n - Len(LinkagePrefix), "a")

NameLengths ==
  Around(MinProtocolNameLength) \cup Around(MaxProtocolNameLength)
    \cup Around(MaxLinkageNameLength)

BaseNames ==
  {PlainName(n) : n \in NameLengths}
    \cup {LinkageName(n) : n \in {m \in NameLengths \cup {Len(LinkagePrefix) + Slack} :
                                   m >= Len(LinkagePrefix)}}

UpperChar(c) ==
  IF \E i \in 1..Len(LowerChars) : LowerChars[i] = c
  THEN UpperChars[CHOOSE i \in 1..Len(LowerChars) : LowerChars[i] = c]
  ELSE c

\* The same name in another letter case and with surrounding whitespace.
Shout(name) ==
  <<" ">> \o [i \in 1..Len(name) |-> IF i = 1 THEN UpperChar(name[i]) ELSE name[i]]
    \o <<"\t">>

DoubleSpaced(name) ==
  [i \in 1..Len(name) |-> IF i \in {Len(name) - 2, Len(name) - 1} THEN " " ELSE name[i]]

WithDash(name) ==
  [i \in 1..Len(name) |-> IF i = Len(name) - 1 THEN "-" ELSE name[i]]

WithProtocolSuffix(name) ==
  SubSeq(name, 1, Len(name) - Len(ProtocolSuffix)) \o ProtocolSuffix

ExampleNames ==
  {<<"m", "y", " ", "p", "r", "o", "t", "o", "c", "o", "l", " ", "n", "a", "m", "e">>,
   <<"m", "y", "p", "r", "o", "t", "o", "c", "o", "l">>}

InvoiceNames ==
  BaseNames \cup ExampleNames
    \cup {Shout(b) : b \in BaseNames}
    \cup {DoubleSpaced(b) : b \in BaseNames}
    \cup {WithDash(b) : b \in BaseNames}
    \cup {WithProtocolSuffix(b) :
            b \in {c \in BaseNames : Len(c) >= Len(LinkagePrefix) + Len(ProtocolSuffix)}}

InvoiceLevels ==
  {Level(n) : n \in (0 - Slack)..(MaxSecurityLevel + Slack)}
    \cup {Fraction(n) : n \in 0..(MaxSecurityLevel - 1)}

InvoiceProtocolIDs == InvoiceLevels \X InvoiceNames

\* Key identifiers of each length, plain and with characters no protocol
\* name may contain.
MarkedKeyID(n) ==
  [i \in 1..n |-> IF i = 1 THEN "-" ELSE IF i = n THEN "A" ELSE IF i = 2 THEN " " ELSE "k"]

\* Key identifiers that read as a protocol name followed by a key identifier.
LookalikeKeyIDs ==
  {name \o <<"-">> \o Filler(MinKeyIDLength, "k") : name \in ExampleNames}

InvoiceKeyIDs ==
  {Filler(n, "k") : n \in Around(MinKeyIDLength) \cup Around(MaxKeyIDLength)}
    \cup {MarkedKeyID(n) : n \in Around(MinKeyIDLength) \cup Around(MaxKeyIDLength)}
    \cup LookalikeKeyIDs

ComputeInvoiceNumberWideStep ==
  /\ Idle
  /\ \E i \in Instances, protocolID \in InvoiceProtocolIDs, keyID \in InvoiceKeyIDs :
       ComputeInvoiceNumberCall(i, protocolID, keyID)

NextInvoice ==
  \/ ComputeInvoiceNumberWideStep
  \/ Return

SpecInvoice == InitAnyone /\ [][NextInvoice]_vars

(***************************************************************************)
(* Properties of computeInvoiceNumber.                                     *)
(***************************************************************************)
LevelValid(securityLevel) == securityLevel.int /\ securityLevel.floor \in {0, 1, 2}

KeyIDValid(keyID) == Len(keyID) >= 1 /\ Len(keyID) <= 800

\* The character rules on a normalised name.
PassesCharacterRules(name) ==
  /\ \A i \in 1..Len(name) : name[i] \in NameChars
  /\ \A i \in 1..(Len(name) - 1) : ~(name[i] = " " /\ name[i + 1] = " ")
  /\ ~EndsWith(name, ProtocolSuffix)

\* The length rule on a normalised name.
PassesLengthRule(name) ==
  \/ Len(name) >= 5 /\ Len(name) <= 400
  \/ Len(name) >= 401 /\ Len(name) <= 430 /\ StartsWith(name, LinkagePrefix)

InvoiceCall == call.op = "computeInvoiceNumber"

CalledName == Trim(ToLowerCase(call.protocolID[2]))

\* C5: with a valid security level, a valid key identifier and a name that
\* passes the character rules, computeInvoiceNumber returns exactly when the
\* normalised name has 5..400 characters, or 401..430 and the linkage
\* prefix; otherwise it throws InvalidProtocolID.
NameLengthRule ==
  (/\ InvoiceCall
   /\ LevelValid(call.protocolID[1])
   /\ KeyIDValid(call.keyID)
   /\ PassesCharacterRules(CalledName)) =>
    IF PassesLengthRule(CalledName)
    THEN ret.ok
    ELSE SameResult(ret, Fail("InvalidProtocolID"))

NameLengthWitness ==
  /\ InvoiceCall
  /\ ret.ok
  /\ Len(CalledName) = 430
  /\ StartsWith(CalledName, LinkagePrefix)

\* C6: a returned token is the security level, "-", the lower-cased and
\* trimmed name, "-", and the key identifier unchanged; the same call with
\* the name in another letter case and surrounded by whitespace returns the
\* same token.
TokenFormat ==
  (InvoiceCall /\ ret.ok) =>
    LET name == CalledName
    IN /\ ret.val = <<DigitChars[call.protocolID[1].floor + 1], "-">> \o name
                      \o <<"-">> \o call.keyID
       /\ name[1] \notin Whitespace
       /\ name[Len(name)] \notin Whitespace
       /\ \A i \in 1..Len(name) : name[i] \in NameChars
       /\ SameResult(ret, computeInvoiceNumber(
                            <<call.protocolID[1], Shout(call.protocolID[2])>>,
                            call.keyID))

TokenFormatWitness ==
  /\ InvoiceCall
  /\ ret.ok
  /\ call.protocolID[2] # CalledName
  /\ Len(call.keyID) > 1
  /\ call.keyID[1] = "-"

ProtocolIDValid(protocolID) ==
  /\ LevelValid(protocolID[1])
  /\ PassesCharacterRules(Trim(ToLowerCase(protocolID[2])))
  /\ PassesLengthRule(Trim(ToLowerCase(protocolID[2])))

\* C7 as claimed: an invalid protocol identifier makes the call throw
\* InvalidProtocolID whatever key identifier comes with it.
InvalidProtocolIDWhateverKeyID ==
  (InvoiceCall /\ ~ProtocolIDValid(call.protocolID)) =>
    SameResult(ret, Fail("InvalidProtocolID"))

\* C7 as amended: an invalid protocol identifier always makes the call
\* throw; the error is InvalidProtocolID when the security level is invalid
\* or the key identifier has 1..800 characters, and InvalidKeyID when the
\* level is valid, the name is invalid and the key identifier has 0 or more
\* than 800 characters (the key identifier is checked before the name).
InvalidProtocolIDThrows ==
  (InvoiceCall /\ ~ProtocolIDValid(call.protocolID)) =>
    IF ~LevelValid(call.protocolID[1]) \/ KeyIDValid(call.keyID)
    THEN SameResult(ret, Fail("InvalidProtocolID"))
    ELSE SameResult(ret, Fail("InvalidKeyID"))

InvalidProtocolIDWitness ==
  /\ InvoiceCall
  /\ LevelValid(call.protocolID[1])
  /\ ~ProtocolIDValid(call.protocolID)
  /\ ~KeyIDValid(call.keyID)
  /\ ~ret.ok

\* C8: with a valid protocol identifier the call throws InvalidKeyID when
\* the key identifier has 0 or more than 800 characters, and returns for
\* every key identifier of 1..800 characters, whatever they are.
KeyIDLengthRule ==
  (InvoiceCall /\ ProtocolIDValid(call.protocolID)) =>
    IF Len(call.keyID) = 0 \/ Len(call.keyID) > 800
    THEN SameResult(ret, Fail("InvalidKeyID"))
    ELSE ret.ok

KeyIDLengthWitness ==
  /\ InvoiceCall
  /\ ret.ok
  /\ Len(call.keyID) = 800
  /\ call.keyID[1] = "-"
  /\ call.keyID[2] = " "

\* ---------------------------------------------------------------------
\* Collisions of namespace tokens
\* ---------------------------------------------------------------------

\* The positions of the token where a "-" stands after the level digit's
\* own separator: the places where another input could have put the
\* boundary between its protocol name and its key identifier.
DashPositions(token) ==
  {p \in 3..Len(token) : token[p] = "-"}

\* The level whose digit opens the token.
LevelOfToken(token) ==
  CHOOSE n \in 0..MaxSecurityLevel : NumberToString(n) = <<token[1]>>

\* An accepted input, other than the one of the call, that yields the
\* same token: it has the level of the token's first digit, and its
\* normalized name and key identifier are the two sides of some "-".
CollidingSplit(token, protocolName, keyID, p) ==
  LET otherName == SubSeq(token, 3, p - 1)
      otherKeyID == SubSeq(token, p + 1, Len(token))
      other == computeInvoiceNumber(<<Level(LevelOfToken(token)), otherName>>, otherKeyID)
  IN  /\ other.ok
      /\ other.val = token
      /\ ~(otherName = protocolName /\ otherKeyID = keyID)

\* C13: a returned token is returned for no other accepted input: every
\* accepted input with the same token has the call's security level, the
\* call's normalized protocol name and the call's key identifier, also
\* when the key identifier contains "-" or reads as a name and a key.
TokensDoNotCollide ==
  (InvoiceCall /\ ret.ok) =>
    LET token == ret.val
        name == CalledName
    IN  /\ LevelOfToken(token) = call.protocolID[1].floor
        /\ \A p \in DashPositions(token) :
             ~CollidingSplit(token, name, call.keyID, p)

\* A returned token whose key identifier reads as a name and a key, so
\* that the token has more than one place to split at.
TokensDoNotCollideWitness ==
  /\ InvoiceCall
  /\ ret.ok
  /\ Cardinality(DashPositions(ret.val)) >= 2
  /\ call.keyID \in LookalikeKeyIDs

(***************************************************************************)
(* StorageUploader.  A method runs from one await to the next in one step; *)
(* what an awaited promise settles to is the environment's choice.  The    *)
(* requests a call issues are kept, each with what came back for it.       *)
(***************************************************************************)
deriverVars == <<rootKey, identityKey, call, ret>>

\* new Error(message); a template literal may put an HTTP status in it.
Error(text) == [text |-> text, status |-> <<>>]

HttpError(text, status) == [text |-> text, status |-> <<status>>]

\* Response.ok: a status of the 2xx range.
ResponseOk(response) == response.status \in 200..299

\* `a || b` on strings: the empty (or absent) string gives way.
MessageOr(message, default) == IF message = "" THEN default ELSE message

\* config.nanostoreURL, as the segments between its "/".
BaseURL == <<"https:", "", "nanostore.example">>

\* fetch(`${baseURL}/invoice`, { method: 'POST', body: { fileSize, retentionPeriod } })
InvoiceRequest(fileSize, retentionPeriod) ==
  [kind |-> "invoice", method |-> "POST", url |-> Append(BaseURL, "invoice"),
   body |-> [fileSize |-> fileSize, retentionPeriod |-> retentionPeriod],
   response |-> Pending, json |-> Unstarted]

\* fetch(`${baseURL}/pay`, { method: 'POST', body: { orderID, recipientPublicKey, amount } })
PayRequest(params) ==
  [kind |-> "pay", method |-> "POST", url |-> Append(BaseURL, "pay"),
   body |-> [orderID |-> params.orderID,
             recipientPublicKey |-> params.recipientPublicKey,
             amount |-> params.amount],
   response |-> Pending, json |-> Unstarted]

\* fetch(uploadURL, { method: 'PUT', body: bodyToUpload })
UploadRequest(uploadURL, bodyToUpload) ==
  [kind |-> "upload", method |-> "PUT", url |-> uploadURL,
   body |-> bodyToUpload, response |-> Pending, json |-> Unstarted]

\* if (!response.ok) throw, in invoice and in pay.
InvoiceResponseRejected(response) == ~ResponseOk(response)

PayResponseRejected(response) == ~ResponseOk(response)

\* Faulty variant: an invoice with status 'error' is taken as an invoice.
InvoiceDataRejected_never(data) == FALSE

\* if (data.status === 'error') throw
InvoiceDataRejected(data) == data.status = "error"

\* if (result.status === 'error') throw
PayResultRejected(result) == result.status = "error"

\* Faulty variant: the response of the PUT is not looked at.
UploadResponseRejected_never(res) == FALSE

\* if (!res.ok) throw, in the continuation of the PUT.
UploadResponseRejected(res) == ~ResponseOk(res)

\* publicURL.replace('/public/', '/upload/'): the first "/public/" only.
ReplacePublic(url) ==
  LET hits == {i \in 2..(Len(url) - 1) : url[i] = "public"}
  IN  IF hits = {} THEN url
      ELSE [url EXCEPT ![CHOOSE i \in hits : \A j \in hits : i <= j] = "upload"]

\* StorageUtils.getURLForFile: the UHRP URL of the hash of the bytes.
GetURLForFile(fileBuffer) == [uhrp |-> fileBuffer]

\* Promise.all([uploadPromise, hashPromise])
PromiseAll(up, hp) ==
  IF up.state = "rejected" THEN Rejected(up.error)
  ELSE IF hp.state = "rejected" THEN Rejected(hp.error)
  ELSE IF up.state = "fulfilled" /\ hp.state = "fulfilled"
       THEN Fulfilled(<<up.value, hp.value>>)
  ELSE Pending

\* The parameters of the upload in progress: those of the call, or those
\* publishFile builds from its invoice.
UploadParams ==
  IF task.op = "upload" THEN task.params
  ELSE [uploadURL |-> ReplacePublic(invoiceResult.publicURL),
        publicURL |-> invoiceResult.publicURL,
        file |-> task.file]

\* upload, from the fetch to the await of Promise.all.
IssuePut(log, params) ==
  /\ requests' = Append(log, UploadRequest(params.uploadURL, params.file.data))
  /\ uploadPromise' = Pending
  /\ hashPromise' = Pending
  /\ pc' = "upload.all"

\* upload, up to its first await: the bytes of a File are awaited, those
\* of a { dataAsBuffer } object are at hand.
BeginUpload(log, params) ==
  IF params.file.kind = "dataAsBuffer"
  THEN IssuePut(log, params)
  ELSE /\ requests' = log
       /\ pc' = "upload.arrayBuffer"
       /\ UNCHANGED <<uploadPromise, hashPromise>>

\* The continuation of `await Promise.all(...)`.
AwaitAll(up, hp) ==
  LET all == PromiseAll(up, hp)
  IN  IF all.state = "rejected"
      THEN promise' = Rejected(all.error) /\ pc' = "done"
      ELSE IF all.state = "fulfilled"
      THEN /\ promise' = Fulfilled([published |-> TRUE, hash |-> all.value[2],
                                    publicURL |-> UploadParams.publicURL])
           /\ pc' = "done"
      ELSE UNCHANGED <<promise, pc>>

\* StorageUploader.invoice, up to the await of authFetch.fetch.
invoice(fileSize, retentionPeriod) ==
  /\ pc = "idle"
  /\ task' = [op |-> "invoice", fileSize |-> fileSize, retentionPeriod |-> retentionPeriod]
  /\ requests' = <<InvoiceRequest(fileSize, retentionPeriod)>>
  /\ pc' = "invoice.fetch"
  /\ promise' = Pending
  /\ UNCHANGED <<invoiceResult, uploadPromise, hashPromise, deriverVars>>

\* StorageUploader.publishFile, up to the await of authFetch.fetch in invoice.
publishFile(file, retentionPeriod) ==
  /\ pc = "idle"
  /\ task' = [op |-> "publishFile", file |-> file, retentionPeriod |-> retentionPeriod]
  /\ requests' = <<InvoiceRequest(file.size, retentionPeriod)>>
  /\ pc' = "invoice.fetch"
  /\ promise' = Pending
  /\ UNCHANGED <<invoiceResult, uploadPromise, hashPromise, deriverVars>>

\* StorageUploader.pay, up to the await of authFetch.fetch.
pay(params) ==
  /\ pc = "idle"
  /\ task' = [op |-> "pay", params |-> params]
  /\ requests' = <<PayRequest(params)>>
  /\ pc' = "pay.fetch"
  /\ promise' = Pending
  /\ UNCHANGED <<invoiceResult, uploadPromise, hashPromise, deriverVars>>

\* StorageUploader.upload, up to its first await.
upload(params) ==
  /\ pc = "idle"
  /\ task' = [op |-> "upload", params |-> params]
  /\ promise' = Pending
  /\ BeginUpload(<<>>, params)
  /\ UNCHANGED <<invoiceResult, deriverVars>>

\* invoice: authFetch.fetch settles; the response is checked.
InvoiceFetchSettles(outcome) ==
  /\ pc = "invoice.fetch"
  /\ requests' = [requests EXCEPT ![Len(requests)].response = outcome]
  /\ IF outcome.state = "rejected"
     THEN promise' = Rejected(outcome.error) /\ pc' = "done"
     ELSE IF InvoiceResponseRejected(outcome.value)
     THEN /\ promise' = Rejected(HttpError("Invoice request failed with HTTP ",
                                           outcome.value.status))
          /\ pc' = "done"
     ELSE pc' = "invoice.json" /\ UNCHANGED promise
  /\ UNCHANGED <<task, invoiceResult, uploadPromise, hashPromise, deriverVars>>

\* invoice: response.json() settles; the data is checked and returned, and
\* publishFile goes on to pay, up to the await of authFetch.fetch.
InvoiceJsonSettles(outcome) ==
  /\ pc = "invoice.json"
  /\ LET answered == [requests EXCEPT ![Len(requests)].json = outcome]
     IN  IF outcome.state = "rejected"
         THEN /\ promise' = Rejected(outcome.error)
              /\ pc' = "done"
              /\ requests' = answered
              /\ UNCHANGED invoiceResult
         ELSE IF InvoiceDataRejected(outcome.value)
         THEN /\ promise' = Rejected(Error(MessageOr(outcome.value.message,
                                           "Invoice request returned an error.")))
              /\ pc' = "done"
              /\ requests' = answered
              /\ UNCHANGED invoiceResult
         ELSE IF task.op = "invoice"
         THEN /\ promise' = Fulfilled(outcome.value)
              /\ pc' = "done"
              /\ requests' = answered
              /\ UNCHANGED invoiceResult
         ELSE /\ invoiceResult' = outcome.value
              /\ requests' = Append(answered,
                               PayRequest([orderID |-> outcome.value.ORDER_ID,
                                           recipientPublicKey |-> outcome.value.identityKey,
                                           amount |-> outcome.value.amount]))
              /\ pc' = "pay.fetch"
              /\ UNCHANGED promise
  /\ UNCHANGED <<task, uploadPromise, hashPromise, deriverVars>>

\* pay: authFetch.fetch settles; the response is checked.
PayFetchSettles(outcome) ==
  /\ pc = "pay.fetch"
  /\ requests' = [requests EXCEPT ![Len(requests)].response = outcome]
  /\ IF outcome.state = "rejected"
     THEN promise' = Rejected(outcome.error) /\ pc' = "done"
     ELSE IF PayResponseRejected(outcome.value)
     THEN /\ promise' = Rejected(HttpError("Payment request failed with HTTP ",
                                           outcome.value.status))
          /\ pc' = "done"
     ELSE pc' = "pay.json" /\ UNCHANGED promise
  /\ UNCHANGED <<task, invoiceResult, uploadPromise, hashPromise, deriverVars>>

\* pay: response.json() settles; the result is checked and returned, and
\* publishFile goes on to upload, up to the first await of upload.
PayJsonSettles(outcome) ==
  /\ pc = "pay.json"
  /\ LET answered == [requests EXCEPT ![Len(requests)].json = outcome]
     IN  IF outcome.state = "rejected"
         THEN /\ promise' = Rejected(outcome.error)
              /\ pc' = "done"
              /\ requests' = answered
              /\ UNCHANGED <<uploadPromise, hashPromise>>
         ELSE IF PayResultRejected(outcome.value)
         THEN /\ promise' = Rejected(Error(MessageOr(outcome.value.description,
                                           "Payment request returned an error.")))
              /\ pc' = "done"
              /\ requests' = answered
              /\ UNCHANGED <<uploadPromise, hashPromise>>
         ELSE IF task.op = "pay"
         THEN /\ promise' = Fulfilled(outcome.value)
              /\ pc' = "done"
              /\ requests' = answered
              /\ UNCHANGED <<uploadPromise, hashPromise>>
         ELSE /\ BeginUpload(answered, UploadParams)
              /\ UNCHANGED promise
  /\ UNCHANGED <<task, invoiceResult, deriverVars>>

\* upload: file.arrayBuffer() settles; with the bytes the PUT is issued.
ArrayBufferSettles(outcome) ==
  /\ pc = "upload.arrayBuffer"
  /\ IF outcome.state = "rejected"
     THEN /\ promise' = Rejected(outcome.error)
          /\ pc' = "done"
          /\ UNCHANGED <<requests, uploadPromise, hashPromise>>
     ELSE /\ IssuePut(requests, UploadParams)
          /\ UNCHANGED promise
  /\ UNCHANGED <<task, invoiceResult, deriverVars>>

\* upload: the fetch of the PUT settles and its continuation checks the
\* response; Promise.all may settle with it.
UploadFetchSettles(outcome) ==
  /\ pc = "upload.all"
  /\ uploadPromise.state = "pending"
  /\ requests' = [requests EXCEPT ![Len(requests)].response = outcome]
  /\ LET settled ==
           IF outcome.state = "rejected" THEN Rejected(outcome.error)
           ELSE IF UploadResponseRejected(outcome.value)
           THEN Rejected(HttpError("File upload failed with HTTP ", outcome.value.status))
           ELSE Fulfilled(outcome.value)
     IN  /\ uploadPromise' = settled
         /\ AwaitAll(settled, hashPromise)
  /\ UNCHANGED <<task, invoiceResult, hashPromise, deriverVars>>

\* upload: the hash computation ends, before or after the PUT, or after
\* the call has already rejected; Promise.all may settle with it.
HashSettles ==
  /\ hashPromise.state = "pending"
  /\ LET settled == Fulfilled(GetURLForFile(UploadParams.file.data))
     IN  /\ hashPromise' = settled
         /\ IF pc = "upload.all"
            THEN AwaitAll(uploadPromise, settled)
            ELSE UNCHANGED <<promise, pc>>
  /\ UNCHANGED <<task, requests, invoiceResult, uploadPromise, deriverVars>>

\* The caller has the settled promise; the uploader keeps nothing of the call.
UploaderReturn ==
  /\ pc = "done"
  /\ task' = NoTask
  /\ pc' = "idle"
  /\ requests' = <<>>
  /\ invoiceResult' = Unstarted
  /\ uploadPromise' = Unstarted
  /\ hashPromise' = Unstarted
  /\ promise' = Unstarted
  /\ UNCHANGED deriverVars

\* The inputs: files of both kinds, and what the network, the server and
\* the file system may answer.
FileContents == {<<104, 105>>, <<>>}

Files ==
  {[kind |-> k, size |-> Len(d), data |-> d] :
     k \in {"dataAsBuffer", "File"}, d \in FileContents}

RetentionPeriods == {7}

PublicURLs ==
  {<<"https:", "", "example.com", "public", "hello">>,
   <<"https:", "", "example.com", "file">>}

HttpStatuses == {200, 500}

FetchOutcomes ==
  {Rejected(Error("fetch failed"))}
    \cup {Fulfilled([status |-> s]) : s \in HttpStatuses}

InvoiceResults ==
  [ORDER_ID : {"order1"}, identityKey : {"02abc"}, amount : {1},
   publicURL : PublicURLs, status : {"success", "error"},
   message : {"", "no space left"}]

PayResults ==
  [publicURL : {<<"https:", "", "example.com", "file">>},
   status : {"success", "error"}, description : {"", "payment refused"}]

JsonOutcomes(results) ==
  {Rejected(Error("invalid json"))} \cup {Fulfilled(r) : r \in results}

ArrayBufferOutcomes(file) ==
  {Rejected(Error("file not readable")), Fulfilled(file.data)}

PayParams ==
  [orderID : {"order1"}, recipientPublicKey : {"02abc"}, amount : {1}]

UploadParamsArgs ==
  {[uploadURL |-> ReplacePublic(u), publicURL |-> u, file |-> f] :
     u \in PublicURLs, f \in Files}

\* The bytes that may come back are those of the file being read.
ArrayBufferStep ==
  /\ pc = "upload.arrayBuffer"
  /\ \E outcome \in ArrayBufferOutcomes(UploadParams.file) : ArrayBufferSettles(outcome)

InitUploader == InitAnyone

NextUploader ==
  \/ \E file \in Files, r \in RetentionPeriods : publishFile(file, r)
  \/ \E file \in Files, r \in RetentionPeriods : invoice(file.size, r)
  \/ \E params \in PayParams : pay(params)
  \/ \E params \in UploadParamsArgs : upload(params)
  \/ \E outcome \in FetchOutcomes : InvoiceFetchSettles(outcome)
  \/ \E outcome \in JsonOutcomes(InvoiceResults) : InvoiceJsonSettles(outcome)
  \/ \E outcome \in FetchOutcomes : PayFetchSettles(outcome)
  \/ \E outcome \in JsonOutcomes(PayResults) : PayJsonSettles(outcome)
  \/ ArrayBufferStep
  \/ \E outcome \in FetchOutcomes : UploadFetchSettles(outcome)
  \/ HashSettles
  \/ UploaderReturn

SpecUploader == InitUploader /\ [][NextUploader]_vars

(***************************************************************************)
(* Properties of StorageUploader.                                          *)
(***************************************************************************)
IsInvoiceRequest(request) ==
  request.method = "POST" /\ request.url = Append(BaseURL, "invoice")

IsPayRequest(request) ==
  request.method = "POST" /\ request.url = Append(BaseURL, "pay")

IsPutRequest(request) == request.method = "PUT"

\* The request was answered with an ok response whose JSON parsed and
\* does not carry the status 'error'.
CompletedSuccessfully(request) ==
  /\ request.response.state = "fulfilled"
  /\ request.response.value.status \in 200..299
  /\ request.json.state = "fulfilled"
  /\ request.json.value.status # "error"

\* C11: the requests of a publishFile call are the invoice request, then
\* the pay request, then the PUT, in that order; each request but the
\* first is issued only when the one before it completed successfully
\* (ok response, status other than 'error'); and a call that returns has
\* issued exactly these three requests and returns published = TRUE with
\* the publicURL of the invoice.
PublishFileOrder ==
  (task.op = "publishFile") =>
    /\ Len(requests) \in 1..3
    /\ IsInvoiceRequest(requests[1])
    /\ Len(requests) >= 2 => IsPayRequest(requests[2])
    /\ Len(requests) >= 3 => IsPutRequest(requests[3])
    /\ \A i \in 2..Len(requests) : CompletedSuccessfully(requests[i - 1])
    /\ promise.state = "fulfilled" =>
         /\ Len(requests) = 3
         /\ promise.value.published
         /\ promise.value.publicURL = requests[1].json.value.publicURL

\* A publishFile call that returned.
PublishFileWitness ==
  /\ task.op = "publishFile"
  /\ promise.state = "fulfilled"
  /\ Len(requests) = 3
  /\ requests[3].response.state = "fulfilled"

\* upload has been called, by the caller or by publishFile.
UploadCalled ==
  \/ task.op = "upload"
  \/ /\ task.op = "publishFile"
     /\ Len(requests) >= 2
     /\ CompletedSuccessfully(requests[2])

PutRequests == {i \in 1..Len(requests) : IsPutRequest(requests[i])}

\* A result is returned only for a PUT that was answered ok.
PublishedOnlyIfOk ==
  promise.state = "fulfilled" =>
    /\ promise.value.published
    /\ \E i \in PutRequests :
         /\ requests[i].response.state = "fulfilled"
         /\ requests[i].response.value.status \in 200..299

\* Once a PUT is answered with a response that is not ok, the call has
\* rejected with the upload error, wherever the hash computation stands.
NotOkRejects ==
  \A i \in PutRequests :
    (/\ requests[i].response.state = "fulfilled"
     /\ requests[i].response.value.status \notin 200..299) =>
      /\ promise.state = "rejected"
      /\ promise.error = [text |-> "File upload failed with HTTP ",
                          status |-> <<requests[i].response.value.status>>]

\* C12 as stated: every upload issues exactly one PUT, returns a result
\* only if the response was ok, and rejects with the upload error when it
\* was not, whichever of the PUT and the hash computation ends first.
UploadExactlyOnePut ==
  UploadCalled =>
    /\ pc = "done" => Cardinality(PutRequests) = 1
    /\ PublishedOnlyIfOk
    /\ NotOkRejects

\* C12: an upload issues at most one PUT: none while (and if) the bytes
\* of a File are not read, in which case the call rejects without a
\* request, and exactly one otherwise; it returns a result only if the
\* response of that PUT was ok, and rejects with the upload error when it
\* was not, whichever of the PUT and the hash computation ends first.
UploadAtMostOnePut ==
  UploadCalled =>
    /\ Cardinality(PutRequests) <= 1
    /\ (pc = "done" /\ PutRequests = {}) =>
         /\ UploadParams.file.kind = "File"
         /\ promise.state = "rejected"
    /\ (UploadParams.file.kind = "dataAsBuffer" \/ pc = "upload.all") =>
         Cardinality(PutRequests) = 1
    /\ PublishedOnlyIfOk
    /\ NotOkRejects

\* The PUT was answered not ok while the hash computation was still
\* running, and the call has rejected.
UploadWitness ==
  /\ UploadCalled
  /\ pc = "done"
  /\ hashPromise.state = "pending"
  /\ \E i \in PutRequests :
       /\ requests[i].response.state = "fulfilled"
       /\ requests[i].response.value.status \notin 200..299

====
